---- MODULE Spec2Model ----
(***************************************************************************)
(* tidy_slack, `ls` subcommand (src/src/main.rs): pagination of            *)
(* conversations.list, normalization of the raw conversations (with a      *)
(* users.info lookup per Im), substring filter, the two sorts, rendering.  *)
(*                                                                         *)
(* A Rust String is a sequence of one-character strings, so that prefix    *)
(* tests, splits, containment and comparisons are computed, not assumed.   *)
(* Cursors, user ids and conversation ids are opaque to the program and    *)
(* are TLA+ strings / naturals.                                            *)
(***************************************************************************)
EXTENDS Naturals, Sequences, FiniteSets, TLC

VARIABLES
    pc,             \* position of ls: "fetch", "normalize", "filter", "sort_names",
                    \* "sort_by_names", "sort_by_type", "render", "done", "failed"
    cursor,         \* get_conversations: let mut cursor
    raw,            \* get_conversations: conversations, then ls: raw_conversations
    idx,            \* ls: position of the for loop over raw_conversations
    conversations,  \* ls: let mut conversations (Vec<NormalizedConversation>)
    substring,      \* ls: substring (the SUBSTRING argument, "" when absent)
    output,         \* the records printed by the final for loop, in print order
    requests,       \* environment: the HTTP requests issued so far, in order
    pages,          \* environment: the successful conversations.list responses, in order
    error,          \* the failure that made the program panic, NoError if none
    members         \* environment: the fragments and suffix the server encoded in an
                    \* mpdm name (NormalizeSpec only)

vars == <<pc, cursor, raw, idx, conversations, substring, output, requests, pages,
          error, members>>

-----------------------------------------------------------------------------
(* Bounds of the model *)

\* Spec: pages of a listing, and conversations of a listing
MaxPages == 3
MaxListed == 2
\* SortSpec: conversations of the single page
MaxRecords == 3
\* NormalizeSpec: fragments of a name, and characters of a fragment
MaxFrags == 3
MaxFragLen == 2

-----------------------------------------------------------------------------
(* Strings *)

\* Unicode code points of the characters the model uses (str's Ord is byte order).
CodePoint ==
    [c \in {"!", "#", "&", "-", "1", "@", "B", "a", "b", "d", "m", "p"} |->
        CASE c = "!" -> 33 [] c = "#" -> 35 [] c = "&" -> 38 [] c = "-" -> 45
          [] c = "1" -> 49 [] c = "@" -> 64 [] c = "B" -> 66 [] c = "a" -> 97
          [] c = "b" -> 98 [] c = "d" -> 100 [] c = "m" -> 109 [] c = "p" -> 112]

\* <String as PartialOrd>::partial_cmp(a, b) == Some(Less)
StrLess(a, b) ==
    \E i \in 1..(Len(a) + 1) :
        /\ i <= Len(b)
        /\ SubSeq(a, 1, i - 1) = SubSeq(b, 1, i - 1)
        /\ (i = Len(a) + 1 \/ CodePoint[a[i]] < CodePoint[b[i]])

\* <Vec<String> as PartialOrd>::partial_cmp(x, y) == Some(Less)
NamesLess(x, y) ==
    \E i \in 1..(Len(x) + 1) :
        /\ i <= Len(y)
        /\ SubSeq(x, 1, i - 1) = SubSeq(y, 1, i - 1)
        /\ (i = Len(x) + 1 \/ StrLess(x[i], y[i]))

\* whether pat occurs in s at position i
MatchAt(s, i, pat) ==
    /\ i + Len(pat) - 1 <= Len(s)
    /\ SubSeq(s, i, i + Len(pat) - 1) = pat

\* str::starts_with
StartsWith(s, pat) == MatchAt(s, 1, pat)

\* String::split_off(n): the returned tail, [n, len)
SplitOff(s, n) == SubSeq(s, n + 1, Len(s))

\* str::contains
Contains(s, pat) == \E i \in 1..(Len(s) + 1) : MatchAt(s, i, pat)

\* str::splitn(2, pat), the items in iteration order (the mutant of RSplitN2)
SplitN2(s, pat) ==
    LET hits == {i \in 1..Len(s) : MatchAt(s, i, pat)}
    IN  IF hits = {} THEN <<s>>
        ELSE LET i == CHOOSE h \in hits : \A k \in hits : h <= k
             IN  <<SubSeq(s, 1, i - 1), SubSeq(s, i + Len(pat), Len(s))>>

\* str::rsplitn(2, pat), the items in iteration order: the part after the last
\* occurrence of pat first, then everything before it; or s alone.
RSplitN2(s, pat) ==
    LET hits == {i \in 1..Len(s) : MatchAt(s, i, pat)}
    IN  IF hits = {} THEN <<s>>
        ELSE LET i == CHOOSE h \in hits : \A k \in hits : h >= k
             IN  <<SubSeq(s, i + Len(pat), Len(s)), SubSeq(s, 1, i - 1)>>

\* Iterator::last().unwrap() of a non-empty iterator
IterLast(items) == items[Len(items)]

\* str::split(pat) that drops empty pieces (the mutant of Split)
RECURSIVE SplitNonEmpty(_, _)
SplitNonEmpty(s, pat) ==
    LET hits == {i \in 1..Len(s) : MatchAt(s, i, pat)}
        keep(p) == IF p = <<>> THEN <<>> ELSE <<p>>
    IN  IF hits = {} THEN keep(s)
        ELSE LET i == CHOOSE h \in hits : \A k \in hits : h <= k
             IN  keep(SubSeq(s, 1, i - 1))
                    \o SplitNonEmpty(SubSeq(s, i + Len(pat), Len(s)), pat)

\* str::split(pat).collect(): the pieces between the non-overlapping occurrences
\* of pat found from the left; always at least one piece.
RECURSIVE Split(_, _)
Split(s, pat) ==
    LET hits == {i \in 1..Len(s) : MatchAt(s, i, pat)}
    IN  IF hits = {} THEN <<s>>
        ELSE LET i == CHOOSE h \in hits : \A k \in hits : h <= k
             IN  <<SubSeq(s, 1, i - 1)>>
                    \o Split(SubSeq(s, i + Len(pat), Len(s)), pat)

\* [String]::join(sep)
RECURSIVE Join(_, _)
Join(parts, sep) ==
    IF Len(parts) = 0 THEN <<>>
    ELSE IF Len(parts) = 1 THEN parts[1]
    ELSE parts[1] \o sep \o Join(Tail(parts), sep)

Dash == <<"-">>
DashDash == <<"-", "-">>
MpdmPrefix == <<"m", "p", "d", "m", "-">>

-----------------------------------------------------------------------------
(* Inputs: what the server and the command line may supply *)

\* channel names and substrings of the paginated listing (Spec)
PagedNames == { <<"a", "b">> }
PagedSubstrings == { <<>>, <<"a">> }
\* channel names of the single-page listing (SortSpec)
NameChoices ==
    { <<"a", "b">>, <<"a", "B">>, MpdmPrefix \o <<"b", "-", "-", "a", "-", "1">> }
UserIds == {"U1", "U2"}
UserNames == { <<"a", "b">>, <<"b">> }
Cursors == {"c1", "c2"}
SubstringChoices == { <<>>, <<"a">>, <<"a", "B">> }
\* failures of a request that was sent: ApiError, reqwest error, serde_json error
ErrorKinds == {"api", "transport", "decode"}

\* The raw conversations the server may send, with channel names among `names`,
\* before they get their ids.
ConvChoices(names) ==
    [variant : {"PublicChannel", "PrivateChannel"}, name : names, user : {""}]
        \cup [variant : {"Im"}, name : {<<>>}, user : UserIds]

\* The server gives every conversation an id of its own: its rank in the listing.
WithIds(chans, from) ==
    [i \in 1..Len(chans) |->
        [id |-> from + i, variant |-> chans[i].variant, name |-> chans[i].name,
         user |-> chans[i].user]]

\* the conversations of the paginated listing (Spec): public channels and Ims
PagedChoices == {c \in ConvChoices(PagedNames) : c.variant # "PrivateChannel"}

NoError == [api |-> "none", kind |-> "none", at |-> 0]
NoMembers == [fragments |-> <<>>, suffix |-> <<>>, has_suffix |-> FALSE, prefixed |-> FALSE]

ListRequest(c) == [api |-> "conversations.list", arg |-> c]
UserRequest(u) == [api |-> "users.info", arg |-> u]

-----------------------------------------------------------------------------
(* get_conversations *)

\* conversations.append(&mut result.channels), appended in front (a mutant)
AppendPageInFront(acc, channels) == channels \o acc

\* conversations.append(&mut result.channels)
AppendPage(acc, channels) == acc \o channels

\* a loop that never breaks (a mutant)
LoopNeverBreaks(c) == FALSE

\* if cursor == "" { break; }
LoopBreaks(c) == c = ""

Init ==
    /\ pc = "fetch"
    /\ cursor = ""
    /\ raw = <<>>
    /\ idx = 1
    /\ conversations = <<>>
    /\ substring \in PagedSubstrings
    /\ output = <<>>
    /\ requests = <<>>
    /\ pages = <<>>
    /\ error = NoError
    /\ members = NoMembers

\* One iteration of the loop whose get_conversations_page call returns Ok: the
\* request carries the current cursor, the page's records are appended and its
\* next_cursor becomes the cursor; the function returns when that is empty.
FetchPageOk ==
    /\ pc = "fetch"
    /\ Len(pages) < MaxPages
    /\ \E n \in 0..(MaxListed - Len(raw)) :
         /\ \E chans \in [1..n -> PagedChoices] :
            \E next \in (IF Len(pages) + 1 < MaxPages THEN Cursors ELSE {}) \cup {""} :
              LET page == [channels |-> WithIds(chans, Len(raw)), next_cursor |-> next]
              IN  /\ requests' = Append(requests, ListRequest(cursor))
                  /\ pages' = Append(pages, page)
                  /\ cursor' = page.next_cursor
                  /\ raw' = AppendPage(raw, page.channels)
                  /\ pc' = IF LoopBreaks(cursor') THEN "normalize" ELSE "fetch"
    /\ UNCHANGED <<idx, conversations, substring, output, error, members>>

\* get_conversations_page returns Err after sending the request: `?` leaves
\* get_conversations and the unwrap in ls panics.
FetchPageErr ==
    /\ pc = "fetch"
    /\ \E k \in ErrorKinds :
         /\ requests' = Append(requests, ListRequest(cursor))
         /\ error' = [api |-> "conversations.list", kind |-> k, at |-> Len(requests')]
    /\ pc' = "failed"
    /\ UNCHANGED <<cursor, raw, idx, conversations, substring, output, pages, members>>

\* get_token()? fails while the request is being built: nothing is sent.
TokenErr ==
    /\ pc \in {"fetch", "normalize"}
    /\ pc = "normalize" => (idx <= Len(raw) /\ raw[idx].variant = "Im")
    /\ error' = [api |-> IF pc = "fetch" THEN "conversations.list" ELSE "users.info",
                 kind |-> "config", at |-> Len(requests)]
    /\ pc' = "failed"
    /\ UNCHANGED <<cursor, raw, idx, conversations, substring, output, requests,
                   pages, members>>

-----------------------------------------------------------------------------
(* ls: normalization *)

\* the member names of a multi-person DM, with splitn for rsplitn (a mutant)
MpdmNamesSplitN(name) ==
    Split(IterLast(SplitN2(SplitOff(name, 5), Dash)), DashDash)

\* convo.name.split_off(5).rsplitn(2, "-").last().unwrap().split("--").collect()
MpdmNames(name) ==
    Split(IterLast(RSplitN2(SplitOff(name, 5), Dash)), DashDash)

\* the prefix test made before the variant is looked at (a mutant)
NormalizeChannelPrefixFirst(convo) ==
    IF StartsWith(convo.name, MpdmPrefix)
    THEN [id |-> convo.id, type_identifier |-> <<"&">>, names |-> MpdmNames(convo.name)]
    ELSE IF convo.variant = "PublicChannel"
    THEN [id |-> convo.id, type_identifier |-> <<"#">>, names |-> <<convo.name>>]
    ELSE [id |-> convo.id, type_identifier |-> <<"!">>, names |-> <<convo.name>>]

\* the match arms for Conversation::PublicChannel and Conversation::PrivateChannel
NormalizeChannel(convo) ==
    IF convo.variant = "PublicChannel"
    THEN [id |-> convo.id, type_identifier |-> <<"#">>, names |-> <<convo.name>>]
    ELSE IF StartsWith(convo.name, MpdmPrefix)
    THEN [id |-> convo.id, type_identifier |-> <<"&">>, names |-> MpdmNames(convo.name)]
    ELSE [id |-> convo.id, type_identifier |-> <<"!">>, names |-> <<convo.name>>]

\* the match arm for Conversation::Im, once get_user returned name
NormalizeIm(convo, name) ==
    [id |-> convo.id, type_identifier |-> <<"@">>, names |-> <<name>>]

\* One iteration of the for loop on a PublicChannel or a PrivateChannel.
NormalizeChannelStep ==
    /\ pc = "normalize"
    /\ idx <= Len(raw)
    /\ raw[idx].variant \in {"PublicChannel", "PrivateChannel"}
    /\ conversations' = Append(conversations, NormalizeChannel(raw[idx]))
    /\ idx' = idx + 1
    /\ UNCHANGED <<pc, cursor, raw, substring, output, requests, pages, error, members>>

\* an Im whose user was looked up before reuses the earlier answer (a mutant)
NormalizeImCached ==
    /\ pc = "normalize"
    /\ idx <= Len(raw)
    /\ raw[idx].variant = "Im"
    /\ LET u == raw[idx].user
           before == {k \in 1..(idx - 1) : raw[k].variant = "Im" /\ raw[k].user = u}
       IN  IF before = {}
           THEN \E name \in UserNames :
                  /\ requests' = Append(requests, UserRequest(u))
                  /\ conversations' = Append(conversations, NormalizeIm(raw[idx], name))
           ELSE /\ requests' = requests
                /\ \E name \in UserNames :
                     conversations' = Append(conversations, NormalizeIm(raw[idx], name))
    /\ idx' = idx + 1
    /\ UNCHANGED <<pc, cursor, raw, substring, output, pages, error, members>>

\* One iteration of the for loop on an Im whose get_user call returns Ok(name).
NormalizeImOk ==
    /\ pc = "normalize"
    /\ idx <= Len(raw)
    /\ raw[idx].variant = "Im"
    /\ \E name \in UserNames :
         /\ requests' = Append(requests, UserRequest(raw[idx].user))
         /\ conversations' = Append(conversations, NormalizeIm(raw[idx], name))
    /\ idx' = idx + 1
    /\ UNCHANGED <<pc, cursor, raw, substring, output, pages, error, members>>

\* a failed lookup replaced by a placeholder name, the listing going on (a mutant)
NormalizeImErrSkipped ==
    /\ pc = "normalize"
    /\ idx <= Len(raw)
    /\ raw[idx].variant = "Im"
    /\ \E k \in ErrorKinds :
         /\ requests' = Append(requests, UserRequest(raw[idx].user))
         /\ error' = [api |-> "users.info", kind |-> k, at |-> Len(requests')]
    /\ conversations' = Append(conversations, NormalizeIm(raw[idx], <<>>))
    /\ idx' = idx + 1
    /\ UNCHANGED <<pc, cursor, raw, substring, output, pages, members>>

\* An iteration on an Im whose get_user call returns Err after sending the
\* request: the unwrap panics.
NormalizeImErr ==
    /\ pc = "normalize"
    /\ idx <= Len(raw)
    /\ raw[idx].variant = "Im"
    /\ \E k \in ErrorKinds :
         /\ requests' = Append(requests, UserRequest(raw[idx].user))
         /\ error' = [api |-> "users.info", kind |-> k, at |-> Len(requests')]
    /\ pc' = "failed"
    /\ UNCHANGED <<cursor, raw, idx, conversations, substring, output, pages, members>>

\* The for loop is over.
NormalizeDone ==
    /\ pc = "normalize"
    /\ idx > Len(raw)
    /\ pc' = "filter"
    /\ UNCHANGED <<cursor, raw, idx, conversations, substring, output, requests,
                   pages, error, members>>

-----------------------------------------------------------------------------
(* ls: filter, sorts, rendering *)

\* the filter closure looking at the first name only (a mutant)
MatchesFirstName(convo, sub) ==
    Len(convo.names) > 0 /\ Contains(convo.names[1], sub)

\* the filter closure: for name in &convo.names { if name.contains(substring) ...
Matches(convo, sub) ==
    \E k \in 1..Len(convo.names) : Contains(convo.names[k], sub)

\* conversations.into_iter().filter(..).collect()
FilterConversations(convs, sub) ==
    SelectSeq(convs, LAMBDA c : Matches(c, sub))

\* if substring != "" { conversations = ...filter... }
Filter ==
    /\ pc = "filter"
    /\ conversations' = IF substring # <<>>
                        THEN FilterConversations(conversations, substring)
                        ELSE conversations
    /\ pc' = "sort_names"
    /\ UNCHANGED <<cursor, raw, idx, substring, output, requests, pages, error, members>>

\* the place of a new element in a sorted sequence of strings
InsertString(sorted, x) ==
    LET p == Cardinality({i \in 1..Len(sorted) : ~StrLess(x, sorted[i])})
    IN  SubSeq(sorted, 1, p) \o <<x>> \o SubSeq(sorted, p + 1, Len(sorted))

\* conversation.names.sort_unstable(): equal strings are indistinguishable, so the
\* result is the one ascending arrangement.
RECURSIVE SortStrings(_)
SortStrings(names) ==
    IF Len(names) <= 1 THEN names
    ELSE InsertString(SortStrings(SubSeq(names, 1, Len(names) - 1)), names[Len(names)])

\* for conversation in &mut conversations { conversation.names.sort_unstable(); }
SortNames ==
    /\ pc = "sort_names"
    /\ conversations' =
         [i \in 1..Len(conversations) |->
            [conversations[i] EXCEPT !.names = SortStrings(@)]]
    /\ pc' = "sort_by_names"
    /\ UNCHANGED <<cursor, raw, idx, substring, output, requests, pages, error, members>>

\* the comparator's arguments exchanged: descending by names (a mutant)
SortUnstableByNamesDescending(convs) ==
    LET n == Len(convs)
        arrangements == {[i \in 1..n |-> convs[p[i]]] : p \in Permutations(1..n)}
    IN  {s \in arrangements :
            \A i \in 1..n : \A j \in (i + 1)..n : ~NamesLess(s[i].names, s[j].names)}

\* sort_unstable_by(|a, b| a.names.partial_cmp(&b.names).unwrap()): every
\* arrangement of convs that is ascending by names; the order of records with
\* equal names is unspecified.
SortUnstableByNames(convs) ==
    LET n == Len(convs)
        arrangements == {[i \in 1..n |-> convs[p[i]]] : p \in Permutations(1..n)}
    IN  {s \in arrangements :
            \A i \in 1..n : \A j \in (i + 1)..n : ~NamesLess(s[j].names, s[i].names)}

SortByNames ==
    /\ pc = "sort_by_names"
    /\ conversations' \in SortUnstableByNames(conversations)
    /\ pc' = "sort_by_type"
    /\ UNCHANGED <<cursor, raw, idx, substring, output, requests, pages, error, members>>

\* the place of a new last element in a sequence sorted by type_identifier:
\* after every element that is not greater
InsertByType(sorted, x) ==
    LET p == Cardinality({i \in 1..Len(sorted) :
                            ~StrLess(x.type_identifier, sorted[i].type_identifier)})
    IN  SubSeq(sorted, 1, p) \o <<x>> \o SubSeq(sorted, p + 1, Len(sorted))

\* an insertion that puts the new element before its equals (a mutant's helper)
InsertByTypeBeforeEquals(sorted, x) ==
    LET p == Cardinality({i \in 1..Len(sorted) :
                            StrLess(sorted[i].type_identifier, x.type_identifier)})
    IN  SubSeq(sorted, 1, p) \o <<x>> \o SubSeq(sorted, p + 1, Len(sorted))

\* a sort by type_identifier that reverses the records of equal type (a mutant)
RECURSIVE SortByTypeReversingEquals(_)
SortByTypeReversingEquals(convs) ==
    IF Len(convs) <= 1 THEN convs
    ELSE InsertByTypeBeforeEquals(
            SortByTypeReversingEquals(SubSeq(convs, 1, Len(convs) - 1)),
            convs[Len(convs)])

\* sort_by(|a, b| a.type_identifier.partial_cmp(&b.type_identifier).unwrap()):
\* a stable sort
RECURSIVE SortByTypeStable(_)
SortByTypeStable(convs) ==
    IF Len(convs) <= 1 THEN convs
    ELSE InsertByType(SortByTypeStable(SubSeq(convs, 1, Len(convs) - 1)),
                      convs[Len(convs)])

SortByType ==
    /\ pc = "sort_by_type"
    /\ conversations' = SortByTypeStable(conversations)
    /\ pc' = "render"
    /\ UNCHANGED <<cursor, raw, idx, substring, output, requests, pages, error, members>>

\* format!("{} {}: {}{}", icon, id, type_identifier, names.join(", " + type_identifier)),
\* the icon and the color left out
RenderLine(convo) ==
    [id |-> convo.id,
     line |-> convo.type_identifier
                \o Join(convo.names, <<",", " ">> \o convo.type_identifier)]

\* for conversation in conversations { println!(..) }
Render ==
    /\ pc = "render"
    /\ output' = [i \in 1..Len(conversations) |-> RenderLine(conversations[i])]
    /\ pc' = "done"
    /\ UNCHANGED <<cursor, raw, idx, conversations, substring, requests, pages, error,
                   members>>

Next ==
    \/ FetchPageOk
    \/ FetchPageErr
    \/ TokenErr
    \/ NormalizeChannelStep
    \/ NormalizeImOk
    \/ NormalizeImErr
    \/ NormalizeDone
    \/ Filter
    \/ SortNames
    \/ SortByNames
    \/ SortByType
    \/ Render

Spec == Init /\ [][Next]_vars

-----------------------------------------------------------------------------
(* A listing of a single page, with more channel names: the program once
   get_conversations has returned that page. *)

SortInit ==
    /\ pc = "normalize"
    /\ cursor = ""
    /\ raw \in {WithIds(chans, 0) :
                  chans \in UNION {[1..n -> ConvChoices(NameChoices)] : n \in 0..MaxRecords}}
    /\ idx = 1
    /\ conversations = <<>>
    /\ substring \in SubstringChoices
    /\ output = <<>>
    /\ requests = <<ListRequest("")>>
    /\ pages = <<[channels |-> raw, next_cursor |-> ""]>>
    /\ error = NoError
    /\ members = NoMembers

NextAfterFetch ==
    \/ TokenErr
    \/ NormalizeChannelStep
    \/ NormalizeImOk
    \/ NormalizeImErr
    \/ NormalizeDone
    \/ Filter
    \/ SortNames
    \/ SortByNames
    \/ SortByType
    \/ Render

SortSpec == SortInit /\ [][NextAfterFetch]_vars

-----------------------------------------------------------------------------
(* A listing of one conversation whose name is any short string, or is built
   the way the server builds the name of a multi-person DM: the normalization
   of that conversation. *)

Strings(alphabet, n) == UNION {[1..k -> alphabet] : k \in 0..n}

FragmentChoices == Strings({"a", "-"}, MaxFragLen)
SuffixChoices == { <<>>, <<"1">>, <<"-">> }

\* what the server encodes: "mpdm-" + fragments joined by "--" + "-" + suffix,
\* and the same without the prefix or without the suffix
MemberChoices ==
    {m \in [fragments : UNION {[1..n -> FragmentChoices] : n \in 1..MaxFrags},
            suffix : SuffixChoices, has_suffix : BOOLEAN, prefixed : BOOLEAN] :
        m.has_suffix \/ m.suffix = <<>>}

EncodedName(m) ==
    (IF m.prefixed THEN MpdmPrefix ELSE <<>>)
        \o Join(m.fragments, DashDash)
        \o (IF m.has_suffix THEN Dash \o m.suffix ELSE <<>>)

NormalizeInit ==
    /\ pc = "normalize"
    /\ cursor = ""
    /\ \/ /\ members \in MemberChoices
          /\ \E v \in {"PublicChannel", "PrivateChannel"} :
               raw = <<[id |-> 1, variant |-> v, name |-> EncodedName(members),
                        user |-> ""]>>
       \/ /\ members = NoMembers
          /\ \E u \in UserIds :
               raw = <<[id |-> 1, variant |-> "Im", name |-> <<>>, user |-> u]>>
    /\ idx = 1
    /\ conversations = <<>>
    /\ substring = <<>>
    /\ output = <<>>
    /\ requests = <<ListRequest("")>>
    /\ pages = <<[channels |-> raw, next_cursor |-> ""]>>
    /\ error = NoError

NextNormalize ==
    \/ TokenErr
    \/ NormalizeChannelStep
    \/ NormalizeImOk
    \/ NormalizeImErr
    \/ NormalizeDone

NormalizeSpec == NormalizeInit /\ [][NextNormalize]_vars

-----------------------------------------------------------------------------
(* Properties *)

ListRequests == SelectSeq(requests, LAMBDA r : r.api = "conversations.list")
UserRequests == SelectSeq(requests, LAMBDA r : r.api = "users.info")

\* get_conversations has returned Ok
Returned == pc # "fetch" /\ error.api # "conversations.list"

\* the for loop over raw_conversations has ended
Normalized == pc \in {"filter", "sort_names", "sort_by_names", "sort_by_type",
                      "render", "done"}

RECURSIVE ConcatChannels(_)
ConcatChannels(ps) ==
    IF ps = <<>> THEN <<>>
    ELSE ConcatChannels(SubSeq(ps, 1, Len(ps) - 1)) \o ps[Len(ps)].channels

\* C1: when the k-th page is the first with an empty next_cursor, get_conversations
\* issues exactly k page fetches, the first with the empty cursor and each later
\* one with the cursor the page before returned, none after the page with the
\* empty cursor, and returns the k pages' records concatenated in page order and
\* in within-page order.
C1_Pagination ==
    /\ \A i \in 1..(Len(pages) - 1) : pages[i].next_cursor # ""
    /\ Returned =>
         LET k == Len(pages)
         IN  /\ k >= 1
             /\ pages[k].next_cursor = ""
             /\ Len(ListRequests) = k
             /\ ListRequests[1].arg = ""
             /\ \A i \in 1..(k - 1) : ListRequests[i + 1].arg = pages[i].next_cursor
             /\ raw = ConcatChannels(pages)

C1_Witness ==
    /\ Returned
    /\ Len(pages) = 3
    /\ Len(pages[1].channels) = 1
    /\ Len(pages[3].channels) = 1
    /\ raw[1] # raw[2]
    /\ pages[1].next_cursor # pages[2].next_cursor

\* C2: once a page fetch or a user lookup has failed the program has stopped:
\* nothing is rendered, also not the records normalized before the failure, and
\* the failed request is the last request issued.
C2_FailureAborts ==
    error # NoError =>
        /\ pc = "failed"
        /\ output = <<>>
        /\ Len(requests) = error.at

C2_Witness ==
    /\ error.api = "users.info"
    /\ error.kind = "api"
    /\ Len(conversations) >= 1
    /\ Len(ListRequests) >= 2
    /\ output = <<>>

\* C8, as claimed: no two page fetches of a run carry the same cursor value,
\* whatever cursors the server returns.
C8_NoCursorTwice ==
    \A i \in 1..Len(ListRequests) : \A j \in (i + 1)..Len(ListRequests) :
        ListRequests[i].arg # ListRequests[j].arg

\* C8, amended: two page fetches carry the same cursor value only when the server
\* returned that non-empty cursor for two different pages; the empty cursor is
\* sent by the first fetch alone.
C8_CursorTwiceOnlyIfServerRepeats ==
    \A i \in 1..Len(ListRequests) : \A j \in (i + 1)..Len(ListRequests) :
        ListRequests[i].arg = ListRequests[j].arg =>
            /\ ListRequests[i].arg # ""
            /\ \E a \in 1..Len(pages) : \E b \in (a + 1)..Len(pages) :
                 /\ pages[a].next_cursor = ListRequests[i].arg
                 /\ pages[b].next_cursor = ListRequests[i].arg

C8_Witness ==
    /\ Len(ListRequests) = 3
    /\ ListRequests[2].arg = ListRequests[3].arg
    /\ Returned

ImUsers(convs) ==
    LET ims == SelectSeq(convs, LAMBDA c : c.variant = "Im")
    IN  [i \in 1..Len(ims) |-> UserRequest(ims[i].user)]

RecordBefore(x, y) ==
    \/ StrLess(x.type_identifier, y.type_identifier)
    \/ /\ x.type_identifier = y.type_identifier
       /\ ~NamesLess(y.names, x.names)

\* the place of the record of the given id in a sequence of records
Place(convs, id) == CHOOSE i \in 1..Len(convs) : convs[i].id = id

\* C3: the records ls renders are in ascending order of type marker
\* ("!" < "#" < "&" < "@") and, for one marker, in ascending order of their names
\* sequences, and the names of every record are in ascending order.
C3_RenderedOrder ==
    pc = "done" =>
        /\ Len(output) = Len(conversations)
        /\ \A i \in 1..Len(output) : output[i] = RenderLine(conversations[i])
        /\ \A i \in 1..Len(conversations) : \A j \in (i + 1)..Len(conversations) :
             RecordBefore(conversations[i], conversations[j])
        /\ \A i \in 1..Len(conversations) :
             \A k \in 1..(Len(conversations[i].names) - 1) :
                ~StrLess(conversations[i].names[k + 1], conversations[i].names[k])
        /\ StrLess(<<"!">>, <<"#">>) /\ StrLess(<<"#">>, <<"&">>) /\ StrLess(<<"&">>, <<"@">>)

C3_Witness ==
    /\ pc = "done"
    /\ Len(conversations) = 3
    /\ conversations[1].type_identifier = <<"!">>
    /\ conversations[2].type_identifier = <<"&">>
    /\ conversations[3].type_identifier = <<"&">>
    /\ conversations[2].names = << <<"a">>, <<"b">> >>
    /\ conversations[2].id = 1
    /\ conversations[1].id = 3

\* C4, as claimed: two rendered records of the same type marker and with equal
\* sorted names are in the order in which the server returned them.
C4_StableOnBothKeys ==
    pc = "done" =>
        \A i \in 1..Len(conversations) : \A j \in (i + 1)..Len(conversations) :
            (/\ conversations[i].type_identifier = conversations[j].type_identifier
             /\ conversations[i].names = conversations[j].names)
                => conversations[i].id < conversations[j].id

\* C4, amended: the sort is stable on the type marker only: two records of the same
\* type marker keep the relative order the sort by names gave them (which, for
\* equal names, need not be the server's).
C4_StableOnType ==
    [][pc = "sort_by_type" =>
         /\ Len(conversations') = Len(conversations)
         /\ \A i \in 1..Len(conversations) : \A j \in (i + 1)..Len(conversations) :
              conversations[i].type_identifier = conversations[j].type_identifier
                => /\ \E k \in 1..Len(conversations') :
                        conversations'[k] = conversations[i]
                   /\ \E k \in 1..Len(conversations') :
                        conversations'[k] = conversations[j]
                   /\ Place(conversations', conversations[i].id)
                        < Place(conversations', conversations[j].id)]_vars

C4_Witness ==
    /\ pc = "done"
    /\ \E i \in 1..Len(conversations) : \E j \in (i + 1)..Len(conversations) :
         /\ conversations[i].type_identifier = conversations[j].type_identifier
         /\ conversations[i].names = conversations[j].names
         /\ conversations[i].id > conversations[j].id

\* whether sub occurs in name, case-sensitively
Occurs(name, sub) ==
    \E i \in 1..(Len(name) + 1) : \E j \in (i - 1)..Len(name) :
        SubSeq(name, i, j) = sub

\* C7: the filter with a non-empty substring keeps exactly the records one of whose
\* names contains the substring, in their order and unchanged; with the empty
\* substring it leaves the sequence as it is.
C7_Filter ==
    [][pc = "filter" =>
         IF substring = <<>> THEN conversations' = conversations
         ELSE LET kept == {i \in 1..Len(conversations) :
                             \E k \in 1..Len(conversations[i].names) :
                                Occurs(conversations[i].names[k], substring)}
              IN  /\ Len(conversations') = Cardinality(kept)
                  /\ \E f \in [1..Len(conversations') -> kept] :
                       /\ \A a \in 1..Len(conversations') :
                            \A b \in (a + 1)..Len(conversations') : f[a] < f[b]
                       /\ \A a \in 1..Len(conversations') :
                            conversations'[a] = conversations[f[a]]]_vars

C7_Witness ==
    /\ pc = "sort_names"
    /\ substring = <<"a">>
    /\ Len(raw) = 3
    /\ Len(conversations) = 2
    /\ conversations[1].id = 1
    /\ conversations[1].names = << <<"b">>, <<"a">> >>
    /\ conversations[2].id = 3

HasMpdmPrefix(name) ==
    /\ Len(name) >= Len(MpdmPrefix)
    /\ \A k \in 1..Len(MpdmPrefix) : name[k] = MpdmPrefix[k]

ExpectedMarker(convo) ==
    CASE convo.variant = "PublicChannel" -> <<"#">>
      [] convo.variant = "PrivateChannel" /\ HasMpdmPrefix(convo.name) -> <<"&">>
      [] convo.variant = "PrivateChannel" /\ ~HasMpdmPrefix(convo.name) -> <<"!">>
      [] convo.variant = "Im" -> <<"@">>

\* C6: every raw conversation gets one marker among "#", "!", "&", "@", decided by
\* its variant and its name's prefix alone: "#" for a PublicChannel (also one named
\* "mpdm-..."), "&" for a PrivateChannel named "mpdm-...", "!" for any other
\* PrivateChannel, "@" for an Im.
C6_Marker ==
    /\ Len(conversations) = idx - 1
    /\ \A i \in 1..Len(conversations) :
         /\ conversations[i].id = raw[i].id
         /\ conversations[i].type_identifier = ExpectedMarker(raw[i])
         /\ conversations[i].type_identifier \in { <<"#">>, <<"!">>, <<"&">>, <<"@">> }

C6_Witness ==
    /\ Len(conversations) = 1
    /\ raw[1].variant = "PublicChannel"
    /\ members.prefixed
    /\ Len(members.fragments) = 2
    /\ conversations[1].type_identifier = <<"#">>

\* C9, as claimed: every normalized record has one name when its marker is "#", "!"
\* or "@" and two or more names when its marker is "&", whatever the channel name.
C9_NamesMatchMarker ==
    \A i \in 1..Len(conversations) :
        /\ Len(conversations[i].names) >= 1
        /\ conversations[i].type_identifier \in { <<"#">>, <<"!">>, <<"@">> }
             => Len(conversations[i].names) = 1
        /\ conversations[i].type_identifier = <<"&">>
             => Len(conversations[i].names) >= 2

\* C9, amended: every normalized record has a non-empty names sequence, of exactly
\* one name when its marker is "#", "!" or "@" and of one or more names when its
\* marker is "&" (one for "mpdm-a-1").
C9_NamesNonEmpty ==
    \A i \in 1..Len(conversations) :
        /\ Len(conversations[i].names) >= 1
        /\ conversations[i].type_identifier \in { <<"#">>, <<"!">>, <<"@">> }
             => Len(conversations[i].names) = 1

C9_Witness ==
    /\ Len(conversations) = 1
    /\ conversations[1].type_identifier = <<"&">>
    /\ Len(conversations[1].names) = 1
    /\ raw[1].name = MpdmPrefix \o <<"a", "-", "1">>

\* a fragment or suffix the claim calls well-formed
NoDash(s) == \A i \in 1..Len(s) : s[i] # "-"
WellFormedFragment(f) ==
    /\ \A i \in 1..(Len(f) - 1) : ~(f[i] = "-" /\ f[i + 1] = "-")
    /\ Len(f) > 0 => (f[1] # "-" /\ f[Len(f)] # "-")

\* C5: for fragments without "--" that neither begin nor end with "-" and a suffix
\* without "-", the private channel named "mpdm-" + the fragments joined by "--" +
\* "-" + suffix is normalized to a record whose names are those fragments in
\* their order, the suffix discarded.
C5_MpdmRoundTrip ==
    (/\ Len(conversations) = 1
     /\ raw[1].variant = "PrivateChannel"
     /\ members.prefixed
     /\ members.has_suffix
     /\ NoDash(members.suffix)
     /\ \A k \in 1..Len(members.fragments) : WellFormedFragment(members.fragments[k]))
        => /\ conversations[1].names = members.fragments
           /\ conversations[1].type_identifier = <<"&">>

C5_Witness ==
    /\ Len(conversations) = 1
    /\ raw[1].variant = "PrivateChannel"
    /\ raw[1].name = MpdmPrefix \o <<"a", "a", "-", "-", "a", "-", "-", "-", "1">>
    /\ members.suffix = <<"1">>
    /\ conversations[1].names = << <<"a", "a">>, <<"a">>, <<>> >>

====
